---- MODULE Spec2Model ----
(***************************************************************************)
(* Race simulation engine: Run.run() and the Driver state it drives.       *)
(*                                                                         *)
(* Two revisions of the engine live in the repository: src/run.py with     *)
(* src/driver.py (variant "main", with the deterministic test mode) and    *)
(* src/New/run.py with src/New/driver.py (variant "New").  The variable    *)
(* `variant` says which one a behaviour follows.                           *)
(*                                                                         *)
(* Times are integers counted in ticks of 0.05 s.  Every time fed into the *)
(* model is a multiple of 5 ticks, so the factor 1.2 of a safety-car lap   *)
(* is exact.  fuelc is kept multiplied by number_of_laps, so the decrement *)
(* 100/number_of_laps of one lap is the integer 100; fuelc_err is what the *)
(* double self.fuelc differs from that exact value by, counted in units of *)
(* 2^-52/number_of_laps, after the roundings of IEEE 754 arithmetic.       *)
(*                                                                         *)
(* `dataframes` keeps of the tables what the engine looks up in them.  A   *)
(* constructor that raises leaves no object: pc is then "config_error"     *)
(* (ValueError) or "raised" (any other exception) with runs = 0, and the   *)
(* attributes are shown empty.                                             *)
(***************************************************************************)
EXTENDS Integers, Sequences, FiniteSets, TLC

VARIABLES
    variant,          \* "main" (src/run.py) or "New" (src/New/run.py)
    test_mode,        \* Run.test_mode
    gp_location,      \* Run.gp_location
    dataframes,       \* Run.dataframes: what the tables hold
    number_of_laps,   \* Run.number_of_laps
    starting_grid,    \* Run.starting_grid: sequence of <<driver_id, position>>
    drivers_list,     \* Run.drivers_list: sequence of Driver records
    safety_car_laps,  \* Run.safety_car_laps: a list
    laps_summary,     \* Run.laps_summary: the rows, in order
    outcomes,         \* Run.outcomes: the rows, in order
    pc,               \* where run() stands
    lap,              \* the lap of the lap loop
    idx,              \* index in drivers_list of the driver a loop is at
    lap_time,         \* the local lap_time of the loop body
    runs,             \* number of calls of run() so far
    simulations,      \* number of Run instances the Monte Carlo loop has built
    cache,            \* FuelAndTireModel.cache: key -> entry
    fits,             \* the FuelAndTireModel objects of the threads fitting
    loader            \* a DataLoader, its database and its last load_table

inputs == <<variant, test_mode, gp_location, dataframes, number_of_laps,
            starting_grid>>
vars == <<variant, test_mode, gp_location, dataframes, number_of_laps,
          starting_grid,
          drivers_list, safety_car_laps, laps_summary, outcomes,
          pc, lap, idx, lap_time, runs, simulations, cache, fits, loader>>
fitting == <<cache, fits>>
\* what no step of a Run touches
outside == <<cache, fits, loader>>

----------------------------------------------------------------------------
(* Bounds of the explored inputs *)

NumDrivers == 3       \* entries of the starting grid
MaxLaps == 3          \* number_of_laps of the short races
FieldLaps == 2        \* number_of_laps of the races of a full, noisy field
LongRaceLaps == 69    \* number_of_laps of the long test-mode races
MaxRuns == 2          \* calls of run() on one instance
MaxSimulations == 2   \* Run instances of one Monte Carlo loop
NumThreads == 3       \* threads fitting performance models at the same time
MaxRows == 2          \* rows of the table a DataLoader reads
MaxHistory == 2       \* DataLoader.historical_years, and the seasons before one
RerunDrivers == 2     \* a second run() is explored for at most this many drivers
RerunLaps == 2        \* ... and at most this many laps
MaxMissing == 1       \* grid entries absent from the drivers table
MaxPitters == 1       \* drivers whose strategy schedules a stop
MaxNoisy == 2         \* drivers whose fitted variability is not zero
DistanceLaps == 12    \* number_of_laps of the races run for the fuel load
ScenarioLaps == 5     \* number_of_laps of the test-mode race without strategies

----------------------------------------------------------------------------
(* Values *)

\* Python's None where an int is expected, and where a compound is
None == -1
NoCompound == "None"
\* None where a str is expected
NoText == "None"
\* np.inf: more than any lap
Infinity == 1000000

Min(a, b) == IF a <= b THEN a ELSE b
Max(a, b) == IF a >= b THEN a ELSE b

Range(s) == {s[i] : i \in DOMAIN s}

\* Run._add_starting_grid_time: t_per_grid_pos = 0.25 s, in ticks
t_per_grid_pos == 5
\* Run._initialize_retirements_and_safety_car: sc_dur, in laps
sc_dur == 5

\* lt * 1.2
SafetyCarLapTime(lt) == (lt * 6) \div 5

\* the durations PitStop.calculate_pit_stop_duration is drawn from: 20 s, 20.25 s
PitDurations == {80 * t_per_grid_pos, 81 * t_per_grid_pos}
\* Driver.best_qualif_time: 60 s
BestQualifTime == 240 * t_per_grid_pos
\* the standard deviation of a noisy driver's lap times: 0.25 s
NoiseTick == 1 * t_per_grid_pos

Variants == {"main", "New"}
Locations == {"Suzuka", "Austin", "MexicoCity", "YasMarina"}

\* Run.__init__: sc_dict
sc_dict(loc) ==
    CASE loc = "Austin" -> <<31, 32>>
      [] loc = "MexicoCity" -> <<1, 2>>
      [] OTHER -> <<>>

\* Run.simulate_dnf_lap: test_dnfs.get(gp_location, {})
test_dnfs(loc) ==
    CASE loc = "Austin" ->
           ("Kimi Raikkonen" :> 38) @@ ("Max Verstappen" :> 28)
           @@ ("Esteban Gutierrez" :> 16) @@ ("Nico Hulkenberg" :> 1)
      [] loc = "MexicoCity" ->
           ("Esteban Ocon" :> 69) @@ ("Pascal Wehrlein" :> 0)
      [] loc = "YasMarina" ->
           ("Carlos Sainz Jnr" :> 41) @@ ("Daniil Kvyat" :> 14)
           @@ ("Jenson Button" :> 12) @@ ("Valtteri Bottas" :> 6)
           @@ ("Kevin Magnussen" :> 5)
      [] OTHER -> <<>>

\* The names of the drivers table, in qualifying order, by location.
Entrants(loc) ==
    CASE loc = "Austin" ->
           <<"Lewis Hamilton", "Nico Hulkenberg", "Max Verstappen",
             "Esteban Gutierrez", "Kimi Raikkonen", "Nico Rosberg">>
      [] loc = "MexicoCity" ->
           <<"Lewis Hamilton", "Esteban Ocon", "Pascal Wehrlein",
             "Nico Rosberg", "Max Verstappen", "Kimi Raikkonen">>
      [] loc = "YasMarina" ->
           <<"Kevin Magnussen", "Lewis Hamilton", "Valtteri Bottas",
             "Jenson Button", "Daniil Kvyat", "Carlos Sainz Jnr">>
      [] OTHER ->
           <<"Lewis Hamilton", "Nico Rosberg", "Max Verstappen",
             "Kimi Raikkonen", "Sebastian Vettel", "Daniel Ricciardo">>

----------------------------------------------------------------------------
(* Strategies: Driver.pit_stops_info *)

Stop(c, lo, hi, pl, ta) ==
    [compound |-> c, pitstop_interval |-> <<lo, hi>>,
     pit_stop_lap |-> pl, tire_age |-> ta]

Strategy(c, ta, stops) ==
    [starting_compound |-> c, starting_tire_age |-> ta, stops |-> stops]

\* {}: no starting compound, no starting tire age, no stop
EmptyStrategy == Strategy(NoCompound, None, <<>>)
PlainStrategy == Strategy("A4", 2, <<>>)

StopStrategies ==
    { Strategy("A4", 2, << Stop("A3", 2, 2, 2, 0) >>),
      Strategy("A4", 2, << Stop("A3", 1, 2, 2, 1) >>),
      Strategy("A4", 2, << Stop("A3", 2, 2, 3, 0) >>),
      Strategy("A3", 0, << Stop("A3", 1, 1, 1, 0), Stop("A2", 1, 3, 2, 3) >>) }

Strategies == {EmptyStrategy, PlainStrategy} \cup StopStrategies

CompoundOffset(c) ==
    CASE c = "A2" -> 6
      [] c = "A3" -> 4
      [] c = "A4" -> 2
      [] OTHER -> 0

\* FuelAndTireModel.predict: the fitted regression
\*   corrected_lap_time ~ fuelc + C(compound) + tireage
\* with one fixed set of coefficients.
Predict(fuelc, compound, tireage) ==
    5 * ((fuelc \div (50 * number_of_laps)) + CompoundOffset(compound) + tireage)

----------------------------------------------------------------------------
(* Construction: Driver.__init__, Run.__init__ *)

\* Driver.__init__ of src/driver.py and src/New/driver.py.
Driver(id, name, strategy, variability, total_laps) ==
    [driver_id |-> id,
     name |-> name,
     position |-> None,
     best_qualif_time |-> BestQualifTime,
     current_lap_time |-> None,
     cumulative_lap_time |-> 0,
     fuelc |-> 100 * total_laps,
     fuelc_err |-> 0,
     next_pit_stop |-> 1,
     pit_stops_info |-> strategy,
     compound |-> strategy.starting_compound,
     tire_age |-> strategy.starting_tire_age,
     accident_dnf_lap |-> None,
     failure_dnf_lap |-> None,
     earliest_dnf_lap |-> None,
     alive |-> TRUE,
     variability |-> variability]

\* a grid of every entrant, whatever the drivers table holds
InitializeDriversKeepingAll(grid, known, names, strat, vari, total_laps) ==
    [i \in 1..Len(grid) |->
        Driver(grid[i][1], names[grid[i][1]], strat[grid[i][1]],
               vari[grid[i][1]], total_laps)]

\* Run._initialize_drivers: one Driver per grid entry whose id is in the
\* drivers table (known), in grid order; the others are skipped.
InitializeDrivers(grid, known, names, strat, vari, total_laps) ==
    LET present == SelectSeq(grid, LAMBDA e : e[1] \in known)
    IN  [i \in 1..Len(present) |->
            Driver(present[i][1], names[present[i][1]], strat[present[i][1]],
                   vari[present[i][1]], total_laps)]

\* The names of every drivers table, in the order sort_values("name") gives
NamesInOrder ==
    <<"Carlos Sainz Jnr", "Daniel Ricciardo", "Daniil Kvyat",
      "Esteban Gutierrez", "Esteban Ocon", "Jenson Button", "Kevin Magnussen",
      "Kimi Raikkonen", "Lewis Hamilton", "Max Verstappen", "Nico Hulkenberg",
      "Nico Rosberg", "Pascal Wehrlein", "Sebastian Vettel",
      "Valtteri Bottas">>
NameRank(name) == CHOOSE k \in DOMAIN NamesInOrder : NamesInOrder[k] = name

\* the elements of a set of ids as a sequence, by ascending key
OrderedBy(ids, key) ==
    [k \in 1..Cardinality(ids) |->
        CHOOSE i \in ids : Cardinality({j \in ids : key[j] < key[i]}) = k - 1]

\* the driver ids with a qualifying row of the race: they qualified in the
\* order of their ids, at positions 1, 2, ...
Qualified(df) ==
    IF df.qualifyings THEN (1..NumDrivers) \ df.unqualified ELSE {}
\* the driver ids with a starter-field row of the race
Entered(df) == IF df.starterfields THEN 1..NumDrivers ELSE {}

\* Run._build_starting_grid: (driver_id, position), the qualifying order and
\* after it the entrants without qualifying row that the drivers table
\* knows, by name
BuildStartingGrid(df, names) ==
    LET qual_grid == OrderedBy(Qualified(df), [i \in 1..NumDrivers |-> i])
        max_pos == Len(qual_grid)
        missing == (Entered(df) \ Qualified(df)) \cap df.drivers
        missing_df == OrderedBy(missing,
                                [i \in 1..NumDrivers |-> NameRank(names[i])])
        ids == qual_grid \o missing_df
    IN  [k \in 1..Len(ids) |-> <<ids[k], k>>]

\* Run._initialize_parameters of src/New/run.py: the qualifying order alone
QualifyingGrid(df) ==
    LET ids == OrderedBy(Qualified(df), [i \in 1..NumDrivers |-> i])
    IN  [k \in 1..Len(ids) |-> <<ids[k], k>>]

HasStops(st) == st.stops # <<>>

\* What the engine looks up in the tables: whether races has a row for
\* (season, gp_location), whether qualifyings and starterfields have rows for
\* that race, which starters have no qualifying row, the ids of the drivers
\* table, and whether the pit-stop durations of laps let PitStop calibrate its
\* law.
Tables ==
    [races : BOOLEAN, qualifyings : BOOLEAN, starterfields : BOOLEAN,
     unqualified : SUBSET (1..NumDrivers),
     drivers : SUBSET (1..NumDrivers), pitstopduration : BOOLEAN]

\* unqualified is what the qualifyings and starterfields rows make it
TablesAgree(df) ==
    /\ ~df.starterfields => df.unqualified = {}
    /\ (df.starterfields /\ ~df.qualifyings) => df.unqualified = 1..NumDrivers
    /\ df.qualifyings => df.unqualified # 1..NumDrivers

FullTables(df) ==
    df.races /\ df.qualifyings /\ df.starterfields /\ df.unqualified = {}

\* The inputs explored: families of races.
Known(known, missing) == Cardinality((1..NumDrivers) \ known) = missing
NoisyDrivers(vari) == {i \in 1..NumDrivers : vari[i] # 0}
Pitters(strat) == {i \in 1..NumDrivers : HasStops(strat[i])}

\* a full field without stops, probabilistic, with noisy lap times
FieldInputs(v, tm, loc, n, df, strat, vari) ==
    /\ ~tm /\ loc = "Suzuka"
    /\ n = FieldLaps
    /\ FullTables(df) /\ df.pitstopduration
    /\ Known(df.drivers, 0)
    /\ \A i \in 1..NumDrivers : strat[i] = PlainStrategy
    /\ NoisyDrivers(vari) = (NumDrivers - MaxNoisy + 1)..NumDrivers

\* strategies with stops, probabilistic, lap times without noise
PitInputs(v, tm, loc, n, df, strat, vari) ==
    /\ ~tm /\ loc = "Suzuka"
    /\ n = MaxLaps
    /\ FullTables(df)
    /\ df.drivers = 1..RerunDrivers
    /\ Pitters(strat) = 1..MaxPitters
    /\ \A i \in 1..NumDrivers : strat[i] # EmptyStrategy
    /\ NoisyDrivers(vari) = {}

\* the deterministic test mode of src/run.py
TestInputs(v, tm, loc, n, df, strat, vari) ==
    /\ tm /\ v = "main"
    /\ n \in {MaxLaps, LongRaceLaps, ScenarioLaps}
    /\ FullTables(df) /\ df.pitstopduration
    /\ \E m \in 0..MaxMissing : Known(df.drivers, m)
    /\ n \in {LongRaceLaps, ScenarioLaps} => Known(df.drivers, 0)
    /\ \/ n # ScenarioLaps /\ \A i \in 1..NumDrivers : strat[i] = PlainStrategy
       \/ \A i \in 1..NumDrivers : strat[i] = EmptyStrategy
       \/ /\ n = MaxLaps
          /\ Pitters(strat) = 1..MaxPitters
          /\ Known(df.drivers, 0)
          /\ \A i \in 1..NumDrivers : strat[i] # EmptyStrategy
    /\ NoisyDrivers(vari) = {}

\* small races, on which run() is called again
SmallInputs(v, tm, loc, n, df, strat, vari) ==
    /\ ~tm /\ loc = "Suzuka"
    /\ n <= RerunLaps
    /\ FullTables(df) /\ df.pitstopduration
    /\ df.drivers = 1..RerunDrivers
    /\ \A i \in 1..NumDrivers : ~HasStops(strat[i])
    /\ \A i \in (1..NumDrivers) \ df.drivers : strat[i] = PlainStrategy
    /\ NoisyDrivers(vari) \in {{}, {1}}

\* the test mode over a longer distance, nobody retiring
DistanceInputs(v, tm, loc, n, df, strat, vari) ==
    /\ tm /\ v = "main" /\ loc = "Suzuka"
    /\ n = DistanceLaps
    /\ FullTables(df) /\ df.pitstopduration
    /\ Known(df.drivers, 0)
    /\ \A i \in 1..NumDrivers : strat[i] = PlainStrategy
    /\ NoisyDrivers(vari) = {}

\* tables without the race, or without qualifying rows for it
BrokenInputs(v, tm, loc, n, df, strat, vari) ==
    /\ ~tm /\ loc = "Suzuka"
    /\ n = FieldLaps
    /\ ~(df.races /\ df.qualifyings)
    /\ ~df.races => (~df.qualifyings /\ ~df.starterfields)
    /\ df.pitstopduration
    /\ Known(df.drivers, 0)
    /\ \A i \in 1..NumDrivers : strat[i] = PlainStrategy
    /\ NoisyDrivers(vari) = {}

\* starters without a qualifying row, no stop and no noise
LateEntryInputs(v, tm, loc, n, df, strat, vari) ==
    /\ ~tm /\ loc = "Suzuka"
    /\ n = FieldLaps
    /\ df.races /\ df.qualifyings /\ df.starterfields
    /\ df.unqualified # {}
    /\ df.pitstopduration
    /\ \E m \in 0..MaxMissing : Known(df.drivers, m)
    /\ \A i \in 1..NumDrivers : strat[i] = PlainStrategy
    /\ NoisyDrivers(vari) = {}

\* what every family asks of the race and of the tables
RaceOk(v, tm, loc, n, df) ==
    /\ TablesAgree(df)
    /\ tm => v = "main"
    /\ ~tm => loc = "Suzuka"
    /\ FullTables(df) \/ n = FieldLaps
    /\ df.pitstopduration \/ n = MaxLaps
    /\ \/ \E m \in 0..MaxMissing : Known(df.drivers, m)
       \/ df.drivers = 1..RerunDrivers

InputOk(v, tm, loc, n, df, strat, vari) ==
    \/ FieldInputs(v, tm, loc, n, df, strat, vari)
    \/ PitInputs(v, tm, loc, n, df, strat, vari)
    \/ TestInputs(v, tm, loc, n, df, strat, vari)
    \/ SmallInputs(v, tm, loc, n, df, strat, vari)
    \/ DistanceInputs(v, tm, loc, n, df, strat, vari)
    \/ BrokenInputs(v, tm, loc, n, df, strat, vari)
    \/ LateEntryInputs(v, tm, loc, n, df, strat, vari)

\* Run._get_race_parameters (src/run.py) and Run._initialize_parameters
\* (src/New/run.py) raise ValueError: no race, or in New no qualifying rows
ConfigurationError(v, df) ==
    \/ ~df.races
    \/ v = "New" /\ ~df.qualifyings

\* Driver.__init__ raises another exception: in src/driver.py IndexError on
\* the best qualifying time of a starter without qualifying rows, in
\* src/New/driver.py TypeError on the starting compound of no strategy
DriverRaises(v, df, strat) ==
    IF v = "main"
    THEN (Entered(df) \ Qualified(df)) \cap df.drivers # {}
    ELSE \E i \in df.drivers \cap Qualified(df) : strat[i] = EmptyStrategy

\* the starting grid of a constructed Run; without qualifying rows and
\* without starters src/run.py builds an empty grid
StartingGrid(v, df, names) ==
    IF v = "main" THEN BuildStartingGrid(df, names) ELSE QualifyingGrid(df)

\* FuelAndTireModel.cache, key (driver_id, race_id, season): one race and one
\* season, so the key is the driver_id.  The model of an entry is the
\* RegressionResults object: what was fitted, a function of the key and of the
\* tables, and which fit made the object (0: the fit of Run.__init__).
Threads == 1..NumThreads
Keys == 1..NumDrivers
FittedModel(key, t) == [coefficients |-> key, object |-> t]
CacheEntry(model, variability) ==
    [model |-> model, variability |-> variability]
\* np.std(self.model.resid) of the fit for a key
ResidualStd(key) == IF key = NumDrivers THEN NoiseTick ELSE 0

\* FuelAndTireModel.__init__, before a key is given: nothing fitted
FuelAndTireModel ==
    [pc |-> "new", key |-> None, model |-> None, variability |-> None,
     is_fitted |-> FALSE]

\* no DataLoader of src/f1sim: the tables come from src/data.py
NoLoader ==
    [historical_years |-> 0, rows |-> <<>>, called |-> FALSE, year |-> None,
     circuit |-> NoText, result |-> <<>>]

Init ==
    \E v \in Variants, tm \in BOOLEAN, loc \in Locations,
       n \in (1..MaxLaps) \cup {LongRaceLaps, DistanceLaps, ScenarioLaps},
       df \in Tables :
      /\ RaceOk(v, tm, loc, n, df)
      /\ \E strat \in [1..NumDrivers -> Strategies],
            vari \in [1..NumDrivers -> {0, NoiseTick}] :
        /\ InputOk(v, tm, loc, n, df, strat, vari)
        /\ variant = v
        /\ test_mode = tm
        /\ gp_location = loc
        /\ dataframes = df
        /\ laps_summary = <<>>
        /\ outcomes = <<>>
        /\ lap = 0
        /\ idx = 0
        /\ lap_time = 0
        /\ runs = 0
        /\ simulations = 1
        /\ cache = (IF v = "main" /\ ~ConfigurationError(v, df)
                    THEN [k \in Qualified(df) \cap df.drivers |->
                             CacheEntry(FittedModel(k, 0), vari[k])]
                    ELSE <<>>)
        /\ fits = [t \in Threads |-> FuelAndTireModel]
        /\ loader = NoLoader
        /\ IF ConfigurationError(v, df) \/ DriverRaises(v, df, strat)
           THEN /\ pc = (IF ConfigurationError(v, df)
                         THEN "config_error" ELSE "raised")
                /\ number_of_laps = 0
                /\ starting_grid = <<>>
                /\ drivers_list = <<>>
                /\ safety_car_laps = <<>>
           ELSE /\ pc = "idle"
                /\ number_of_laps = n
                /\ starting_grid = StartingGrid(v, df, Entrants(loc))
                /\ drivers_list =
                      InitializeDrivers(StartingGrid(v, df, Entrants(loc)),
                                        df.drivers,
                                        Entrants(loc), strat, vari, n)
                /\ safety_car_laps = (IF tm THEN sc_dict(loc) ELSE <<>>)

----------------------------------------------------------------------------
(* Sorting: Python's sorted(), which is stable, also with reverse=True *)

StaysBefore(a, b, reverse) == IF reverse THEN a >= b ELSE a <= b

RECURSIVE InsertSorted(_, _, _, _)
InsertSorted(s, x, key, reverse) ==
    IF s = <<>> THEN <<x>>
    ELSE IF StaysBefore(key[Head(s)], key[x], reverse)
         THEN <<Head(s)>> \o InsertSorted(Tail(s), x, key, reverse)
         ELSE <<x>> \o s

\* s: a sequence of indices of drivers_list; key: index -> sort key
RECURSIVE Sorted(_, _, _)
Sorted(s, key, reverse) ==
    IF s = <<>> THEN <<>>
    ELSE InsertSorted(Sorted(SubSeq(s, 1, Len(s) - 1), key, reverse),
                      s[Len(s)], key, reverse)

\* the index i with s[i] = x (x occurs once)
IndexOf(s, x) == CHOOSE i \in DOMAIN s : s[i] = x

Indices(dl) == [i \in 1..Len(dl) |-> i]
AliveIndices(dl) == SelectSeq(Indices(dl), LAMBDA i : dl[i].alive)
DeadIndices(dl) == SelectSeq(Indices(dl), LAMBDA i : ~dl[i].alive)

----------------------------------------------------------------------------
(* Retirement and safety-car initialization *)

\* Python truth of an int-or-None: None and 0 are false
Truthy(x) == x # None /\ x # 0

\* the draws of simulate_dnf_lap, the later of the two laps kept
DnfDrawLatest(d, acc, fl, a, f) ==
    LET a_lap == IF acc THEN a ELSE None
        f_lap == IF fl THEN f ELSE None
    IN  [d EXCEPT !.accident_dnf_lap = IF variant = "main" THEN @ ELSE a_lap,
                  !.failure_dnf_lap = IF variant = "main" THEN @ ELSE f_lap,
                  !.earliest_dnf_lap = Max(a_lap, f_lap)]

\* Run.simulate_dnf_lap with the draws acc, fl (binomial) and a, f (randint)
DnfDraw(d, acc, fl, a, f) ==
    LET a_lap == IF acc THEN a ELSE None
        f_lap == IF fl THEN f ELSE None
        kept == IF variant = "main"
                THEN {l \in {a_lap, f_lap} : Truthy(l)}
                ELSE {l \in {a_lap, f_lap} : l # None}
        earliest == IF kept = {} THEN None
                    ELSE CHOOSE l \in kept : \A m \in kept : l <= m
    IN  IF variant = "main"
        THEN [d EXCEPT !.earliest_dnf_lap = earliest]
        ELSE [d EXCEPT !.accident_dnf_lap = a_lap,
                       !.failure_dnf_lap = f_lap,
                       !.earliest_dnf_lap = earliest]

\* Run.simulate_dnf_lap: the set of drivers it can leave
simulate_dnf_lap(d) ==
    IF test_mode
    THEN LET mapping == test_dnfs(gp_location)
         IN  { IF d.name \in DOMAIN mapping
               THEN [d EXCEPT !.earliest_dnf_lap = mapping[d.name]]
               ELSE d }
    ELSE { DnfDraw(d, acc, fl, a, f) :
             acc \in BOOLEAN, fl \in BOOLEAN,
             a \in 1..number_of_laps, f \in 1..number_of_laps }

\* for lap in range(from, to + 1): if lap not in list: list.append(lap)
RECURSIVE AppendLaps(_, _, _)
AppendLaps(list, from, to) ==
    IF from > to THEN list
    ELSE AppendLaps(IF from \in Range(list) THEN list ELSE Append(list, from),
                    from + 1, to)

\* the safety car of a DNF at dnf_lap
DeploySafetyCar(list, dnf_lap) ==
    AppendLaps(list, dnf_lap, Min(dnf_lap + sc_dur - 1, number_of_laps))

\* whether the DNF lap can trigger a safety car
TriggersSafetyCar(dnf_lap) ==
    IF variant = "main" THEN Truthy(dnf_lap) ELSE dnf_lap # None

----------------------------------------------------------------------------
(* Driver operations *)

\* update_status recomputing alive from the lap alone
update_status_recomputed(d, current_lap) ==
    [d EXCEPT !.alive =
        d.earliest_dnf_lap = None \/ current_lap < d.earliest_dnf_lap]

\* update_status stopping the driver on the DNF lap only
update_status_one_lap(d, current_lap) ==
    [d EXCEPT !.alive =
        ~(d.earliest_dnf_lap # None /\ current_lap = d.earliest_dnf_lap)]

\* Driver.update_status
update_status(d, current_lap) ==
    IF variant = "main"
    THEN IF d.earliest_dnf_lap # None /\ current_lap >= d.earliest_dnf_lap
         THEN [d EXCEPT !.alive = FALSE]
         ELSE d
    ELSE IF d.alive /\ d.earliest_dnf_lap = current_lap
         THEN [d EXCEPT !.alive = FALSE]
         ELSE d

\* Driver.update_info raises TypeError: None + 1
UpdateInfoRaises(d) == d.tire_age = None

\* The doubles of update_info.  A double x is written x = (a * 2^52 + e) * u
\* with u = 2^-52 / n, n the number of laps: a / n is the value exact
\* arithmetic gives and e * u the deviation from it.
RECURSIVE Pow2(_)
Pow2(k) == IF k = 0 THEN 1 ELSE 2 * Pow2(k - 1)

RECURSIVE Pow2Mod(_, _)
Pow2Mod(k, n) == IF k = 0 THEN 1 % n ELSE (2 * Pow2Mod(k - 1, n)) % n

\* the binary exponent of a / n, between 1 and 128, with deviation e
Binade(a, e, n) ==
    LET ex == CHOOSE x \in 0..6 : n * Pow2(x) <= a /\ a < n * Pow2(x + 1)
    IN  IF a = n * Pow2(ex) /\ e < 0 THEN ex - 1 ELSE ex

\* The deviation of the double nearest to (a * 2^52 + e) * u, ties to even:
\* the doubles of exponent ex are the multiples of g = n * 2^ex units.  Below
\* 2 every multiple of 2^-52 is a double.
RoundDouble(a, e, n) ==
    IF a = 0 THEN e
    ELSE LET ex == Binade(a, e, n)
             g == n * Pow2(ex)
             r2 == (Pow2(ex + 1) * (((a % n) * Pow2Mod(51 - ex, n)) % n) + e)
                      % (2 * g)
             r == r2 % g
         IN  IF 2 * r < g THEN e - r
             ELSE IF 2 * r > g THEN e + g - r
             ELSE IF r2 >= g THEN e + g - r ELSE e - r

\* the double 100 / total_laps
LapFuelErr(total_laps) == RoundDouble(100, 0, total_laps)

\* src/driver.py: self.fuelc = max(self.fuelc - (100/total_laps), 0)
FuelAfterLap(d, total_laps) ==
    LET a == d.fuelc - 100
        e == RoundDouble(a, d.fuelc_err - LapFuelErr(total_laps), total_laps)
    IN  IF a < 0 \/ (a = 0 /\ e < 0) THEN <<0, 0>> ELSE <<a, e>>

\* src/New/driver.py: self.fuelc = 100 - (100.0 / total_laps) * current_lap
FuelAtLap(current_lap, total_laps) ==
    LET used == RoundDouble(100 * current_lap,
                            LapFuelErr(total_laps) * current_lap, total_laps)
        a == 100 * total_laps - 100 * current_lap
    IN  <<a, RoundDouble(a, 0 - used, total_laps)>>

\* update_info wearing the tires by two laps
update_info_two_laps(d, current_lap, total_laps) ==
    [d EXCEPT !.tire_age = @ + 2,
              !.fuelc = Max(@ - 100, 0)]

\* Driver.update_info, when it does not raise
update_info(d, current_lap, total_laps) ==
    IF variant = "main"
    THEN [d EXCEPT !.tire_age = @ + 1,
                   !.fuelc = FuelAfterLap(d, total_laps)[1],
                   !.fuelc_err = FuelAfterLap(d, total_laps)[2]]
    ELSE [d EXCEPT !.tire_age = @ + 1,
                   !.fuelc = FuelAtLap(current_lap, total_laps)[1],
                   !.fuelc_err = FuelAtLap(current_lap, total_laps)[2]]

\* the values np.random.normal(0, variability) is drawn from
Noise(d) ==
    IF variant = "main" /\ test_mode THEN {0}
    ELSE IF d.variability = 0 THEN {0}
    ELSE {0 - d.variability, d.variability}

\* the stop of an entry taken one lap after its pit lap, the window ignored
StopTakenLate(data, current_lap) == current_lap = data.pit_stop_lap + 1

\* Run._pit_stop: whether the stop of entry data is taken on current_lap
StopTaken(data, current_lap) ==
    LET exact == current_lap = data.pit_stop_lap
        window ==
            IF variant = "main"
            THEN current_lap \in
                   data.pitstop_interval[1] .. (data.pitstop_interval[2] - 1)
            ELSE /\ current_lap \in Range(safety_car_laps)
                 /\ current_lap \in
                      data.pitstop_interval[1] .. data.pitstop_interval[2]
    IN  exact \/ window

\* the lap time of a stop lap computed after the stop, on the tires fitted
compute_lap_time_on_new_tires(d, current_lap, var) ==
    LET nps == d.next_pit_stop
        info == d.pit_stops_info.stops
        due == /\ nps \in DOMAIN info
               /\ StopTaken(info[nps], current_lap)
               /\ dataframes.pitstopduration
        base == IF due
                THEN Predict(d.fuelc, info[nps].compound, info[nps].tire_age)
                ELSE Predict(d.fuelc, d.compound, d.tire_age)
        lt == d.best_qualif_time + base + var
    IN  IF current_lap \in Range(safety_car_laps)
        THEN SafetyCarLapTime(lt)
        ELSE lt

\* Run._compute_lap_time, with the draw var
compute_lap_time(d, current_lap, var) ==
    LET base == Predict(d.fuelc, d.compound, d.tire_age)
        lt == d.best_qualif_time + base + var
    IN  IF current_lap \in Range(safety_car_laps)
        THEN SafetyCarLapTime(lt)
        ELSE lt

\* the stop resolved once for each of the two conditions that hold
pit_stop_resolving_twice(d, current_lap) ==
    LET nps == d.next_pit_stop
        info == d.pit_stops_info.stops
        both == /\ current_lap = info[nps].pit_stop_lap
                /\ current_lap \in Range(safety_car_laps)
    IN  IF nps \in DOMAIN info /\ StopTaken(info[nps], current_lap)
        THEN { << [d EXCEPT !.tire_age = info[nps].tire_age,
                            !.compound = info[nps].compound,
                            !.next_pit_stop = IF both THEN @ + 2 ELSE @ + 1],
                  IF both THEN 2 * dur ELSE dur >> : dur \in PitDurations }
        ELSE { <<d, 0>> }

\* the stop counted although its duration could not be calibrated
pit_stop_skipping_entry(d, current_lap) ==
    LET nps == d.next_pit_stop
        info == d.pit_stops_info.stops
    IN  IF nps \in DOMAIN info /\ StopTaken(info[nps], current_lap)
        THEN IF dataframes.pitstopduration
             THEN { << [d EXCEPT !.tire_age = info[nps].tire_age,
                                 !.compound = info[nps].compound,
                                 !.next_pit_stop = @ + 1],
                       dur >> : dur \in PitDurations }
             ELSE { << [d EXCEPT !.next_pit_stop = @ + 1], 0 >> }
        ELSE { <<d, 0>> }

\* Run._pit_stop: the set of <<driver after the call, returned duration>>.
\* PitStop raising ValueError is caught: 0.0, the driver as it was.
pit_stop(d, current_lap) ==
    LET nps == d.next_pit_stop
        info == d.pit_stops_info.stops
    IN  IF nps \in DOMAIN info /\ StopTaken(info[nps], current_lap)
        THEN IF dataframes.pitstopduration
             THEN { << [d EXCEPT !.tire_age = info[nps].tire_age,
                                 !.compound = info[nps].compound,
                                 !.next_pit_stop = @ + 1],
                       dur >> : dur \in PitDurations }
             ELSE { <<d, 0>> }
        ELSE { <<d, 0>> }

\* the rank of driver i among the alive drivers, the slowest first
get_driver_position_slowest_first(dl, i) ==
    LET alive == Sorted(AliveIndices(dl),
                        [j \in 1..Len(dl) |-> dl[j].cumulative_lap_time],
                        TRUE)
    IN  IndexOf(alive, i)

\* Run._get_driver_position: the rank of driver i among the alive drivers
get_driver_position(dl, i) ==
    LET alive == Sorted(AliveIndices(dl),
                        [j \in 1..Len(dl) |-> dl[j].cumulative_lap_time],
                        FALSE)
    IN  IndexOf(alive, i)

----------------------------------------------------------------------------
(* Run.run *)

\* a second run() on the same instance is explored for small races only
CanRerun ==
    /\ runs < MaxRuns
    /\ Len(drivers_list) <= RerunDrivers
    /\ number_of_laps <= RerunLaps
    /\ runs = 0 \/ (dataframes.unqualified = {} /\ simulations = 1)
    /\ \A i \in DOMAIN drivers_list :
          ~HasStops(drivers_list[i].pit_stops_info)

\* where the lap loop enters a lap: at its first driver, or with no driver
\* at all at the loops that follow
LapEntry == IF drivers_list = <<>> THEN "positions" ELSE "status"

\* run() is called; without drivers the loop of the retirements is empty
CallRun ==
    /\ \/ pc = "idle"
       \/ pc = "done" /\ CanRerun
    /\ runs' = runs + 1
    /\ idx' = 1
    /\ IF drivers_list # <<>>
       THEN pc' = "retire" /\ UNCHANGED lap
       ELSE IF variant = "main"
            THEN pc' = "grid" /\ UNCHANGED lap
            ELSE pc' = LapEntry /\ lap' = 1
    /\ UNCHANGED <<inputs, outside, simulations, drivers_list, safety_car_laps,
                   laps_summary, outcomes, lap_time>>

\* Run._initialize_retirements_and_safety_car: one driver of its loop
InitializeRetirement ==
    /\ pc = "retire"
    /\ \E d \in simulate_dnf_lap(drivers_list[idx]), sc \in BOOLEAN :
          /\ drivers_list' = [drivers_list EXCEPT ![idx] = d]
          /\ safety_car_laps' =
                IF ~test_mode /\ sc /\ TriggersSafetyCar(d.earliest_dnf_lap)
                THEN DeploySafetyCar(safety_car_laps, d.earliest_dnf_lap)
                ELSE safety_car_laps
    /\ IF idx < Len(drivers_list)
       THEN /\ idx' = idx + 1
            /\ UNCHANGED <<pc, lap>>
       ELSE IF variant = "main"
            THEN /\ pc' = "grid"
                 /\ UNCHANGED <<idx, lap>>
            ELSE /\ pc' = "status"
                 /\ lap' = 1
                 /\ idx' = 1
    /\ UNCHANGED <<inputs, outside, simulations, laps_summary, outcomes,
                   lap_time, runs>>

\* Run._add_starting_grid_time over the entries grid[k..]
RECURSIVE AddGridTime(_, _, _)
AddGridTime(dl, grid, k) ==
    IF k > Len(grid) THEN dl
    ELSE LET found == {i \in DOMAIN dl : dl[i].driver_id = grid[k][1]}
         IN  IF found = {} THEN AddGridTime(dl, grid, k + 1)
             ELSE LET i == CHOOSE j \in found : \A m \in found : j <= m
                  IN  AddGridTime(
                        [dl EXCEPT ![i].cumulative_lap_time =
                                      @ + grid[k][2] * t_per_grid_pos],
                        grid, k + 1)

\* no time for the place on the grid
add_no_starting_grid_time(dl, grid) == dl

add_starting_grid_time(dl, grid) == AddGridTime(dl, grid, 1)

AddStartingGridTime ==
    /\ pc = "grid"
    /\ drivers_list' = add_starting_grid_time(drivers_list, starting_grid)
    /\ pc' = LapEntry
    /\ lap' = 1
    /\ idx' = 1
    /\ UNCHANGED <<inputs, outside, simulations, safety_car_laps, laps_summary,
                   outcomes, lap_time, runs>>

\* the first loop of a lap moves on to its next driver, or ends
NextDriver ==
    IF idx < Len(drivers_list)
    THEN idx' = idx + 1 /\ pc' = "status"
    ELSE idx' = idx /\ pc' = "positions"

\* driver.update_status(lap), and the else branch of `if driver.alive`
UpdateStatus ==
    /\ pc = "status"
    /\ LET d == update_status(drivers_list[idx], lap)
       IN  IF d.alive
           THEN /\ drivers_list' = [drivers_list EXCEPT ![idx] = d]
                /\ pc' = "info"
                /\ idx' = idx
           ELSE /\ drivers_list' =
                     [drivers_list EXCEPT ![idx] =
                         [d EXCEPT !.current_lap_time = 0]]
                /\ NextDriver
    /\ UNCHANGED <<inputs, outside, simulations, safety_car_laps, laps_summary,
                   outcomes, lap, lap_time, runs>>

\* driver.update_info(lap, number_of_laps)
UpdateInfo ==
    /\ pc = "info"
    /\ IF UpdateInfoRaises(drivers_list[idx])
       THEN /\ pc' = "raised"
            /\ UNCHANGED drivers_list
       ELSE /\ pc' = "laptime"
            /\ drivers_list' =
                  [drivers_list EXCEPT ![idx] =
                      update_info(@, lap, number_of_laps)]
    /\ UNCHANGED <<inputs, outside, simulations, safety_car_laps, laps_summary,
                   outcomes, lap, idx, lap_time, runs>>

\* lap_time = self._compute_lap_time(driver, lap)
ComputeLapTime ==
    /\ pc = "laptime"
    /\ \E var \in Noise(drivers_list[idx]) :
          lap_time' = compute_lap_time(drivers_list[idx], lap, var)
    /\ pc' = "pit"
    /\ UNCHANGED <<inputs, outside, simulations, drivers_list, safety_car_laps,
                   laps_summary, outcomes, lap, idx, runs>>

\* the lap of a running driver, the stop slowed by the safety car as well
AccumulateLapScalingStop(d, lt, pit_time) ==
    LET t == IF lap \in Range(safety_car_laps)
             THEN lt + SafetyCarLapTime(pit_time)
             ELSE lt + pit_time
    IN  [d EXCEPT !.current_lap_time = t, !.cumulative_lap_time = @ + t]

\* the lap of a running driver, once lap_time and pit_time are known
AccumulateLap(d, lt, pit_time) ==
    [d EXCEPT !.current_lap_time = lt + pit_time,
              !.cumulative_lap_time = @ + lt + pit_time]

\* pit_time = self._pit_stop(driver, lap) and the two assignments after it
PitStop ==
    /\ pc = "pit"
    /\ \E r \in pit_stop(drivers_list[idx], lap) :
          drivers_list' =
             [drivers_list EXCEPT ![idx] = AccumulateLap(r[1], lap_time, r[2])]
    /\ NextDriver
    /\ UNCHANGED <<inputs, outside, simulations, safety_car_laps, laps_summary,
                   outcomes, lap, lap_time, runs>>

\* the second loop of a lap: positions of the running drivers
update_positions(dl) ==
    [i \in 1..Len(dl) |->
        IF dl[i].alive
        THEN [dl[i] EXCEPT !.position = get_driver_position(dl, i)]
        ELSE [dl[i] EXCEPT !.position = None]]

UpdatePositions ==
    /\ pc = "positions"
    /\ drivers_list' = update_positions(drivers_list)
    /\ pc' = "record"
    /\ UNCHANGED <<inputs, outside, simulations, safety_car_laps, laps_summary,
                   outcomes, lap, idx, lap_time, runs>>

\* the row of a lap logged under the lap before it
SummaryRowStaleLap(d, current_lap) ==
    [lap |-> Max(current_lap - 1, 1),
     driver_id |-> d.driver_id,
     position |-> d.position,
     lap_time |-> d.current_lap_time,
     cumulative_lap_time |-> d.cumulative_lap_time,
     status |-> IF d.alive THEN "running" ELSE "DNF"]

SummaryRow(d, current_lap) ==
    [lap |-> current_lap,
     driver_id |-> d.driver_id,
     position |-> d.position,
     lap_time |-> d.current_lap_time,
     cumulative_lap_time |-> d.cumulative_lap_time,
     status |-> IF d.alive THEN "running" ELSE "DNF"]

\* whether the third loop of a lap records the driver
Recorded(d, current_lap) == d.alive \/ d.earliest_dnf_lap = current_lap

\* the third loop of a lap, over the drivers dl[k..]
RECURSIVE RecordFrom(_, _, _, _)
RecordFrom(rows, dl, current_lap, k) ==
    IF k > Len(dl) THEN rows
    ELSE RecordFrom(IF Recorded(dl[k], current_lap)
                    THEN Append(rows, SummaryRow(dl[k], current_lap))
                    ELSE rows,
                    dl, current_lap, k + 1)

record_lap_summary(rows, dl, current_lap) == RecordFrom(rows, dl, current_lap, 1)

RecordLapSummary ==
    /\ pc = "record"
    /\ laps_summary' = record_lap_summary(laps_summary, drivers_list, lap)
    /\ IF lap < number_of_laps
       THEN /\ lap' = lap + 1
            /\ idx' = 1
            /\ pc' = LapEntry
       ELSE /\ pc' = "classify"
            /\ UNCHANGED <<lap, idx>>
    /\ UNCHANGED <<inputs, outside, simulations, drivers_list, safety_car_laps,
                   outcomes, lap_time, runs>>

\* finishers sorted with the slowest first
FinishersSlowestFirst(dl) ==
    Sorted(AliveIndices(dl),
           [j \in 1..Len(dl) |-> dl[j].cumulative_lap_time], TRUE)

\* sorted(finishers, key=cumulative_lap_time)
Finishers(dl) ==
    Sorted(AliveIndices(dl),
           [j \in 1..Len(dl) |-> dl[j].cumulative_lap_time], FALSE)

\* the sort key of a retiree
DnfKey(d) ==
    IF variant = "main"
    THEN IF Truthy(d.earliest_dnf_lap) THEN d.earliest_dnf_lap ELSE Infinity
    ELSE d.earliest_dnf_lap

\* sorted(dnfs, ...): latest retirement first in main, earliest first in New
Dnfs(dl) ==
    Sorted(DeadIndices(dl), [j \in 1..Len(dl) |-> DnfKey(dl[j])],
           variant = "main")

\* retirees numbered from 1, without the finishers before them
DnfPositionNoOffset(k, nf, total) == k

\* the final position of the retiree at place k of Dnfs, behind nf finishers
DnfPosition(k, nf, total) ==
    IF variant = "main" THEN k + nf ELSE total - k + 1

\* src/New/run.py:109: sorted() compares None with an int: TypeError
ClassificationRaises(dl) ==
    /\ variant = "New"
    /\ Len(DeadIndices(dl)) >= 2
    /\ \E i \in DOMAIN dl : ~dl[i].alive /\ dl[i].earliest_dnf_lap = None

\* a classification of all drivers by cumulative time alone
final_classification_by_time(dl) ==
    LET all == Sorted(Indices(dl),
                      [j \in 1..Len(dl) |-> dl[j].cumulative_lap_time], FALSE)
    IN  [i \in 1..Len(dl) |-> [dl[i] EXCEPT !.position = IndexOf(all, i)]]

\* the final classification: positions of finishers, then of retirees
final_classification(dl) ==
    LET fin == Finishers(dl)
        dnf == Dnfs(dl)
    IN  [i \in 1..Len(dl) |->
            IF dl[i].alive
            THEN [dl[i] EXCEPT !.position = IndexOf(fin, i)]
            ELSE [dl[i] EXCEPT !.position =
                     DnfPosition(IndexOf(dnf, i), Len(fin), Len(dl))]]

FinalClassification ==
    /\ pc = "classify"
    /\ IF ClassificationRaises(drivers_list)
       THEN /\ pc' = "raised"
            /\ UNCHANGED drivers_list
       ELSE /\ pc' = "outcomes"
            /\ drivers_list' = final_classification(drivers_list)
    /\ UNCHANGED <<inputs, outside, simulations, safety_car_laps, laps_summary,
                   outcomes, lap, idx, lap_time, runs>>

OutcomeRow(d) ==
    [driver_id |-> d.driver_id,
     driver_name |-> d.name,
     final_position |-> d.position,
     cumulative_time |-> d.cumulative_lap_time]

build_outcomes(dl) == [i \in 1..Len(dl) |-> OutcomeRow(dl[i])]

BuildOutcomes ==
    /\ pc = "outcomes"
    /\ outcomes' = build_outcomes(drivers_list)
    /\ pc' = "done"
    /\ UNCHANGED <<inputs, outside, simulations, drivers_list, safety_car_laps,
                   laps_summary, lap, idx, lap_time, runs>>

\* the values a new Run is given: the strategy mapping as the Drivers of the
\* last instance hold its entries (Driver.pit_stops_info is the mapping's own
\* dict), and the variability the model fitted from the tables
driver_strategies(dl) ==
    [id \in 1..NumDrivers |->
        IF \E i \in DOMAIN dl : dl[i].driver_id = id
        THEN dl[CHOOSE i \in DOMAIN dl : dl[i].driver_id = id].pit_stops_info
        ELSE EmptyStrategy]
FittedVariability(dl) ==
    [id \in 1..NumDrivers |->
        IF \E i \in DOMAIN dl : dl[i].driver_id = id
        THEN dl[CHOOSE i \in DOMAIN dl : dl[i].driver_id = id].variability
        ELSE 0]

\* the drivers of the next simulation, were the Driver objects kept
KeepDrivers(dl, grid, known, names, total_laps) == dl

\* the drivers of the next simulation: Run.__init__ builds new ones
NewDrivers(dl, grid, known, names, total_laps) ==
    InitializeDrivers(grid, known, names, driver_strategies(dl),
                      FittedVariability(dl), total_laps)

\* MonteCarloSimulator.run_simulation: after sim.run() the loop builds the
\* next Run from the same dataframes and the same driver_strategies (explored
\* for the small probabilistic races)
NextSimulation ==
    /\ pc = "done"
    /\ runs = 1
    /\ simulations < MaxSimulations
    /\ Len(drivers_list) <= RerunDrivers
    /\ number_of_laps <= MaxLaps
    /\ ~test_mode /\ dataframes.unqualified = {}
    /\ simulations' = simulations + 1
    /\ drivers_list' = NewDrivers(drivers_list, starting_grid,
                                  dataframes.drivers, Entrants(gp_location),
                                  number_of_laps)
    /\ safety_car_laps' = (IF test_mode THEN sc_dict(gp_location) ELSE <<>>)
    /\ laps_summary' = <<>>
    /\ outcomes' = <<>>
    /\ pc' = "idle"
    /\ lap' = 0
    /\ idx' = 0
    /\ lap_time' = 0
    /\ runs' = 0
    /\ UNCHANGED <<inputs, outside>>

Next ==
    \/ CallRun
    \/ InitializeRetirement
    \/ AddStartingGridTime
    \/ UpdateStatus
    \/ UpdateInfo
    \/ ComputeLapTime
    \/ PitStop
    \/ UpdatePositions
    \/ RecordLapSummary
    \/ FinalClassification
    \/ BuildOutcomes
    \/ NextSimulation

Spec == Init /\ [][Next]_vars

----------------------------------------------------------------------------
(* FuelAndTireModel.fit called from several threads of one process.  The   *)
(* statements of fit() are the steps; the interpreter may switch threads   *)
(* between any two of them.                                                *)

\* the process has loaded the tables and built no Run yet
NoRun ==
    /\ variant = "main"
    /\ test_mode = FALSE
    /\ gp_location = "Suzuka"
    /\ dataframes = [races |-> TRUE, qualifyings |-> TRUE,
                     starterfields |-> TRUE, unqualified |-> {},
                     drivers |-> 1..NumDrivers, pitstopduration |-> TRUE]
    /\ number_of_laps = 0
    /\ starting_grid = <<>>
    /\ drivers_list = <<>>
    /\ safety_car_laps = <<>>
    /\ laps_summary = <<>>
    /\ outcomes = <<>>
    /\ pc = "idle"
    /\ lap = 0
    /\ idx = 0
    /\ lap_time = 0
    /\ runs = 0
    /\ simulations = 0

CacheInit ==
    /\ NoRun
    /\ cache = <<>>
    /\ fits = [t \in Threads |-> FuelAndTireModel]
    /\ loader = NoLoader

race == <<inputs, drivers_list, safety_car_laps, laps_summary, outcomes, pc,
          lap, idx, lap_time, runs, simulations>>

\* FuelAndTireModel(season, driver_id, race_id, dataframes); fit() begins
FitCall(t) ==
    /\ fits[t].pc = "new"
    /\ \E k \in Keys :
          fits' = [fits EXCEPT ![t].key = k, ![t].pc = "lookup"]
    /\ UNCHANGED <<race, cache, loader>>

\* what a fit that found its key in the cache ends with
FromCache(f, cached) ==
    [f EXCEPT !.model = cached.model, !.variability = cached.variability,
              !.is_fitted = TRUE, !.pc = "fitted"]

\* fit(): if key in FuelAndTireModel.cache: take the cached values, return
Lookup(f, c) ==
    IF f.key \in DOMAIN c
    THEN FromCache(f, c[f.key])
    ELSE [f EXCEPT !.pc = "regression"]

FitLookup(t) ==
    /\ fits[t].pc = "lookup"
    /\ fits' = [fits EXCEPT ![t] = Lookup(fits[t], cache)]
    /\ UNCHANGED <<race, cache, loader>>

\* fit(): the pipeline, _regression, variability, is_fitted
FitRegression(t) ==
    /\ fits[t].pc = "regression"
    /\ fits' = [fits EXCEPT ![t].model = FittedModel(fits[t].key, t),
                            ![t].variability = ResidualStd(fits[t].key),
                            ![t].is_fitted = TRUE,
                            ![t].pc = "store"]
    /\ UNCHANGED <<race, cache, loader>>

\* fit(): FuelAndTireModel.cache[key] = {...}
Store(c, key, entry) == (key :> entry) @@ c

FitStore(t) ==
    /\ fits[t].pc = "store"
    /\ cache' = Store(cache, fits[t].key,
                      CacheEntry(fits[t].model, fits[t].variability))
    /\ fits' = [fits EXCEPT ![t].pc = "fitted"]
    /\ UNCHANGED <<race, loader>>

CacheNext ==
    \E t \in Threads :
        \/ FitCall(t)
        \/ FitLookup(t)
        \/ FitRegression(t)
        \/ FitStore(t)

CacheSpec == CacheInit /\ [][CacheNext]_vars

----------------------------------------------------------------------------
(* DataLoader.load_table of src/f1sim/data/loader.py over one table with    *)
(* the columns year and circuit.                                           *)

Years == 2020..(2020 + MaxHistory)
Circuits == {"Monza", "Spa"}
\* a row: year (None for NULL) and circuit
Rows == [year : Years \cup {None}, circuit : Circuits]
RECURSIVE TablesOf(_)
TablesOf(n) ==
    IF n = 0 THEN {<<>>}
    ELSE TablesOf(n - 1)
         \cup {Append(t, r) : t \in {u \in TablesOf(n - 1) : Len(u) = n - 1},
                              r \in Rows}

\* SQL: v BETWEEN lo AND hi with lo above v: no row of the first year
BetweenAboveStart(v, lo, hi) == v # None /\ lo < v /\ v <= hi

\* SQL: v BETWEEN lo AND hi, both ends included; NULL is never between
Between(v, lo, hi) == v # None /\ lo <= v /\ v <= hi

\* the WHERE clauses load_table builds, with their parameters
Clauses(year, circuit, historical_years) ==
    (IF year # None
     THEN << [column |-> "year", start |-> year - historical_years,
              end |-> year] >>
     ELSE <<>>)
    \o (IF circuit # NoText
        THEN << [column |-> "circuit", value |-> circuit] >>
        ELSE <<>>)

\* one clause on one row
Holds(r, c) ==
    IF c.column = "year" THEN Between(r.year, c.start, c.end)
    ELSE r.circuit = c.value

\* DataLoader.load_table: SELECT * FROM table WHERE clause AND clause
load_table(rows, year, circuit, historical_years) ==
    LET clauses == Clauses(year, circuit, historical_years)
    IN  SelectSeq(rows,
                  LAMBDA r : \A k \in DOMAIN clauses : Holds(r, clauses[k]))

LoaderInit ==
    /\ NoRun
    /\ cache = <<>>
    /\ fits = [t \in Threads |-> FuelAndTireModel]
    /\ \E h \in 0..MaxHistory, t \in TablesOf(MaxRows) :
          loader = [NoLoader EXCEPT !.historical_years = h, !.rows = t]

LoadTable ==
    /\ \E year \in Years \cup {None}, circuit \in Circuits \cup {NoText} :
          loader' = [loader EXCEPT
                        !.called = TRUE, !.year = year, !.circuit = circuit,
                        !.result = load_table(loader.rows, year, circuit,
                                              loader.historical_years)]
    /\ UNCHANGED <<race, fitting>>

LoaderNext == LoadTable

LoaderSpec == LoaderInit /\ [][LoaderNext]_vars

----------------------------------------------------------------------------
(* Properties *)

Drivers == DOMAIN drivers_list
Done == pc = "done"
LoopPcs == {"status", "info", "laptime", "pit", "positions", "record"}
IsFinisher(i) == drivers_list[i].alive
IsRetiree(i) == ~drivers_list[i].alive
FinalPosition(i) == outcomes[i].final_position
CumulativeTime(i) == outcomes[i].cumulative_time
DnfLap(i) == drivers_list[i].earliest_dnf_lap
NumFinishers == Cardinality({i \in Drivers : IsFinisher(i)})
\* a step of one Run instance: its Driver objects stay the same objects
SameSimulation == simulations' = simulations
RowsOf(id) == {k \in DOMAIN laps_summary : laps_summary[k].driver_id = id}
DnfRowsOf(id) == {k \in RowsOf(id) : laps_summary[k].status = "DNF"}

\* C1: when run() has completed, the final positions of outcomes are exactly
\* 1..N, each used once, N being the number of drivers.
C1_PositionsArePermutation ==
    Done =>
        /\ Len(outcomes) = Len(drivers_list)
        /\ {FinalPosition(i) : i \in Drivers} = 1..Len(drivers_list)
        /\ \A i, j \in Drivers :
              FinalPosition(i) = FinalPosition(j) => i = j

\* a completed race of three drivers with a finisher and a retiree
C1_Witness ==
    /\ Done
    /\ Len(drivers_list) = NumDrivers
    /\ \E i, j \in Drivers : IsFinisher(i) /\ IsRetiree(j)

\* C2: in no step of a simulation does a driver that is not alive become
\* alive, in the first run() and in a later one.
C2_AliveNeverReturns ==
    [][SameSimulation =>
        \A i \in Drivers :
            ~drivers_list[i].alive => ~drivers_list'[i].alive]_vars

\* a second run() in which a driver retired in the first one has drawn a
\* DNF lap later than the lap the loop is at
C2_Witness ==
    /\ runs = 2
    /\ pc = "info"
    /\ \E i \in Drivers :
          /\ IsRetiree(i)
          /\ DnfLap(i) # None
          /\ lap < DnfLap(i)

\* C3: of two finishers of a completed run, the one with the strictly smaller
\* cumulative time has the strictly smaller final position.
C3_FinishersByTime ==
    Done =>
        \A i, j \in Drivers :
            (IsFinisher(i) /\ IsFinisher(j)
             /\ CumulativeTime(i) < CumulativeTime(j))
            => FinalPosition(i) < FinalPosition(j)

\* two finishers, the one later on the grid classified ahead
C3_Witness ==
    /\ Done
    /\ \E i, j \in Drivers :
          /\ i < j
          /\ IsFinisher(i) /\ IsFinisher(j)
          /\ CumulativeTime(j) < CumulativeTime(i)
          /\ FinalPosition(j) < FinalPosition(i)

\* C4: in a completed run with F finishers out of N drivers, the finishers
\* hold the positions 1..F and the retirees the positions F+1..N.
C4_FinishersAheadOfRetirees ==
    Done =>
        /\ {FinalPosition(i) : i \in {j \in Drivers : IsFinisher(j)}}
              = 1..NumFinishers
        /\ {FinalPosition(i) : i \in {j \in Drivers : IsRetiree(j)}}
              = (NumFinishers + 1)..Len(drivers_list)

\* a retiree with less cumulative time than a finisher, classified behind it
C4_Witness ==
    /\ Done
    /\ \E i, j \in Drivers :
          /\ IsFinisher(i) /\ IsRetiree(j)
          /\ CumulativeTime(j) < CumulativeTime(i)
          /\ FinalPosition(i) < FinalPosition(j)

\* C5: of two retirees of a completed run, the one with the strictly earlier
\* earliest_dnf_lap has the strictly larger final position.
C5_EarliestRetireeLast ==
    Done =>
        \A i, j \in Drivers :
            (IsRetiree(i) /\ IsRetiree(j)
             /\ DnfLap(i) # None /\ DnfLap(j) # None
             /\ DnfLap(i) < DnfLap(j))
            => FinalPosition(i) > FinalPosition(j)

\* C6: in the first run(), a driver stops being alive only in the loop
\* iteration of its own status update whose lap is its earliest_dnf_lap, and
\* is alive on every lap before it.
C6_RetiresOnDnfLap ==
    [][runs = 1 =>
        \A i \in Drivers :
            /\ (drivers_list[i].alive /\ ~drivers_list'[i].alive)
                  => (pc = "status" /\ idx = i
                      /\ lap = drivers_list'[i].earliest_dnf_lap)
            /\ (pc \in LoopPcs /\ DnfLap(i) # None /\ lap < DnfLap(i))
                  => drivers_list[i].alive]_vars

\* C7: from the lap L = earliest_dnf_lap of a driver on, no step of the lap
\* loop, of the classification or of the outcomes changes its cumulative
\* time, its own iteration of such a lap leaves it a lap time of 0, and its
\* outcomes row carries that unchanged cumulative time.
C7_RetireeTimeFrozen ==
    [][\A i \in Drivers :
          (/\ pc \in LoopPcs \cup {"classify", "outcomes"}
           /\ DnfLap(i) # None
           /\ lap >= DnfLap(i))
          => /\ drivers_list'[i].cumulative_lap_time
                   = drivers_list[i].cumulative_lap_time
             /\ (pc = "status" /\ idx = i)
                   => drivers_list'[i].current_lap_time = 0
             /\ pc' = "done"
                   => outcomes'[i].cumulative_time
                         = drivers_list[i].cumulative_lap_time]_vars

\* a completed race whose retiree ran a lap before retiring, not on the last
\* lap, beside a finisher
C7_Witness ==
    /\ Done
    /\ \E i, j \in Drivers :
          /\ IsRetiree(i) /\ IsFinisher(j)
          /\ DnfLap(i) # None /\ DnfLap(i) > 1 /\ DnfLap(i) < number_of_laps
          /\ \E k \in RowsOf(drivers_list[i].driver_id) :
                /\ laps_summary[k].status = "running"
                /\ laps_summary[k].cumulative_lap_time = CumulativeTime(i)

\* C8: after the first run(), every retiree has exactly one DNF record, on the
\* lap equal to its earliest_dnf_lap, and it is the last record of the driver.
C8_OneDnfRecord ==
    (Done /\ runs = 1) =>
        \A i \in Drivers :
            IsRetiree(i) =>
                LET id == drivers_list[i].driver_id
                IN  /\ Cardinality(DnfRowsOf(id)) = 1
                    /\ \A k \in DnfRowsOf(id) :
                          /\ laps_summary[k].lap = DnfLap(i)
                          /\ \A m \in RowsOf(id) : m <= k

\* no two records of laps_summary for the same driver and lap
NoDuplicateRecords ==
    \A k, m \in DOMAIN laps_summary :
        (/\ laps_summary[k].driver_id = laps_summary[m].driver_id
         /\ laps_summary[k].lap = laps_summary[m].lap)
        => k = m

\* C9 as stated: in every reachable state, laps_summary holds at most one
\* record for each (driver_id, lap).
C9_AtMostOneRecord == NoDuplicateRecords

\* C9 as amended: while run() has been called at most once on the instance,
\* laps_summary holds at most one record for each (driver_id, lap).
C9_AtMostOneRecordFirstRun == runs <= 1 => NoDuplicateRecords

\* the first run() completed, every driver recorded on two laps or more
C9_Witness ==
    /\ Done
    /\ runs = 1
    /\ Len(drivers_list) = NumDrivers
    /\ \A i \in Drivers :
          Cardinality(RowsOf(drivers_list[i].driver_id)) >= 2

\* the condition C10 gives for a stop of driver d on lap l
C10_StopCondition(d, l) ==
    /\ d.next_pit_stop \in DOMAIN d.pit_stops_info.stops
    /\ LET data == d.pit_stops_info.stops[d.next_pit_stop]
       IN  \/ l = data.pit_stop_lap
           \/ /\ l \in Range(safety_car_laps)
              /\ data.pitstop_interval[1] <= l
              /\ l <= data.pitstop_interval[2]

\* C10: pit-stop resolution of a running driver on lap L takes a stop if and
\* only if the next_pit_stop entry exists and L is its pit lap, or L is a
\* safety-car lap within its pit window, bounds included; otherwise no stop
\* is taken and the lap gets no time beside its lap time.
C10_StopIffScheduledOrSafetyCarWindow ==
    [][pc = "pit" =>
        LET d == drivers_list[idx]
            d2 == drivers_list'[idx]
        IN  /\ (d2.next_pit_stop # d.next_pit_stop)
                  <=> C10_StopCondition(d, lap)
            /\ ~C10_StopCondition(d, lap)
                  => /\ d2.current_lap_time = lap_time
                     /\ d2.tire_age = d.tire_age
                     /\ d2.compound = d.compound]_vars

\* whether Run._pit_stop finds a stop to take for driver d on lap l
StopDue(d, l) ==
    /\ d.next_pit_stop \in DOMAIN d.pit_stops_info.stops
    /\ StopTaken(d.pit_stops_info.stops[d.next_pit_stop], l)

\* C11: whenever pit-stop resolution takes a stop, it resolves exactly one:
\* next_pit_stop grows by 1, tire_age and compound become those of the entry
\* taken, and one sampled duration is added to the lap time of that lap.
C11_OneStopResolved ==
    [][pc = "pit" =>
        LET d == drivers_list[idx]
            d2 == drivers_list'[idx]
        IN  d2.next_pit_stop # d.next_pit_stop =>
              LET data == d.pit_stops_info.stops[d.next_pit_stop]
              IN  /\ d2.next_pit_stop = d.next_pit_stop + 1
                  /\ d2.tire_age = data.tire_age
                  /\ d2.compound = data.compound
                  /\ (d2.current_lap_time - lap_time) \in PitDurations
                  /\ d2.cumulative_lap_time
                        = d.cumulative_lap_time + d2.current_lap_time]_vars

\* a driver has just taken its first stop on its scheduled lap, which is also
\* a safety-car lap inside the window of the entry
C11_Witness ==
    /\ pc \in {"status", "positions", "record"}
    /\ \E i \in Drivers :
          LET d == drivers_list[i]
          IN  /\ d.alive
              /\ HasStops(d.pit_stops_info)
              /\ d.next_pit_stop = 2
              /\ d.pit_stops_info.stops[1].pit_stop_lap = lap
              /\ lap \in Range(safety_car_laps)
              /\ d.pit_stops_info.stops[1].pitstop_interval[1] <= lap
              /\ lap <= d.pit_stops_info.stops[1].pitstop_interval[2]
              /\ d.tire_age = d.pit_stops_info.stops[1].tire_age
              /\ (i < idx \/ pc # "status")

\* once retirements and safety cars are initialized in a run()
Initialized == runs >= 1 /\ pc \notin {"idle", "retire"}

\* C12: after the initialization every lap of safety_car_laps is a lap of the
\* race, 1..number_of_laps, and is entered once; and a step of the
\* initialization either leaves the list alone or adds to it exactly the laps
\* L..min(L + 4, number_of_laps) for the DNF lap L it has just set, the laps
\* flagged before staying where they are.
C12_SafetyCarLapsOfTheRace ==
    /\ [](Initialized =>
            /\ \A k \in DOMAIN safety_car_laps :
                  safety_car_laps[k] \in 1..number_of_laps
            /\ \A k, m \in DOMAIN safety_car_laps :
                  safety_car_laps[k] = safety_car_laps[m] => k = m)
    /\ [][pc = "retire" =>
            LET L == drivers_list'[idx].earliest_dnf_lap
            IN  \/ safety_car_laps' = safety_car_laps
                \/ /\ L # None
                   /\ Range(safety_car_laps')
                         = Range(safety_car_laps)
                           \cup (L .. Min(L + sc_dur - 1, number_of_laps))
                   /\ SubSeq(safety_car_laps', 1, Len(safety_car_laps))
                         = safety_car_laps]_vars

\* the double self.fuelc lies within [0, 100]
FuelInRange(d) ==
    /\ d.fuelc > 0 \/ (d.fuelc = 0 /\ d.fuelc_err >= 0)
    /\ \/ d.fuelc < 100 * number_of_laps
       \/ (d.fuelc = 100 * number_of_laps /\ d.fuelc_err <= 0)

\* C13: the fuel of every driver is within [0, 100] at every moment, and it
\* is exactly 0 once the race is over for a driver still running at its end.
C13_FuelInRangeAndSpent ==
    \A i \in Drivers :
        /\ FuelInRange(drivers_list[i])
        /\ (Done /\ IsFinisher(i))
              => (drivers_list[i].fuelc = 0 /\ drivers_list[i].fuelc_err = 0)

\* C14 as stated: tire_age and compound of a driver change in the pit-stop
\* resolution of that driver only.
C14_TiresChangeInPitStopOnly ==
    [][SameSimulation =>
        \A i \in Drivers :
          (\/ drivers_list'[i].tire_age # drivers_list[i].tire_age
           \/ drivers_list'[i].compound # drivers_list[i].compound)
          => (pc = "pit" /\ idx = i)]_vars

\* C14 as amended: the compound of a driver changes in the pit-stop
\* resolution of that driver only; its tire_age changes there and in its
\* update_info, which adds 1 to it, and nowhere else.
C14_TiresChangeInInfoAndPitStopOnly ==
    [][SameSimulation =>
        \A i \in Drivers :
          /\ drivers_list'[i].compound # drivers_list[i].compound
                => (pc = "pit" /\ idx = i)
          /\ drivers_list'[i].tire_age # drivers_list[i].tire_age
                => \/ pc = "pit" /\ idx = i
                   \/ /\ pc = "info" /\ idx = i
                      /\ drivers_list'[i].tire_age
                            = drivers_list[i].tire_age + 1]_vars

\* a driver that took a stop and then ran a lap or more on the new tires
C14_Witness ==
    /\ Done
    /\ \E i \in Drivers :
          LET d == drivers_list[i]
          IN  /\ HasStops(d.pit_stops_info)
              /\ d.next_pit_stop = 2
              /\ d.compound = d.pit_stops_info.stops[1].compound
              /\ d.compound # d.pit_stops_info.starting_compound
              /\ d.tire_age > d.pit_stops_info.stops[1].tire_age

\* C15: a test-mode run is a function of its inputs: none of its steps has
\* two outcomes, neither the DNF lap of a driver, nor the noise of a lap time,
\* nor the resolution of a pit stop.  (Two runs from identical inputs then end
\* with identical outcomes; a step with two outcomes lets them differ.)
C15_TestModeDrawsNothing ==
    (test_mode /\ pc \in {"retire", "laptime", "pit"}) =>
        LET d == drivers_list[idx]
        IN  /\ pc = "retire" => Cardinality(simulate_dnf_lap(d)) = 1
            /\ pc = "laptime" => Cardinality(Noise(d)) = 1
            /\ pc = "pit" => Cardinality(pit_stop(d, lap)) = 1

\* C16: the test-mode race of three drivers over five laps, nobody with a
\* strategy, runs to completion; its finishers are classified from 1 in
\* ascending cumulative time, its retirees behind them, and laps_summary has
\* no row of a retiree for a lap after its DNF lap.
C16_NoStrategyRaceCompletes ==
    (/\ test_mode
     /\ runs >= 1
     /\ number_of_laps = ScenarioLaps
     /\ Len(drivers_list) = NumDrivers
     /\ \A i \in Drivers : drivers_list[i].pit_stops_info = EmptyStrategy)
    => /\ pc # "raised"
       /\ Done =>
            /\ \A i, j \in Drivers :
                  (IsFinisher(i) /\ IsFinisher(j)
                   /\ CumulativeTime(i) < CumulativeTime(j))
                  => FinalPosition(i) < FinalPosition(j)
            /\ \A i, j \in Drivers :
                  (IsFinisher(i) /\ IsRetiree(j))
                  => FinalPosition(i) < FinalPosition(j)
            /\ \A i \in Drivers :
                  IsRetiree(i) =>
                     \A k \in RowsOf(drivers_list[i].driver_id) :
                        laps_summary[k].lap <= DnfLap(i)

\* C17: the first run() on a constructed simulation never stops on an
\* exception, whatever the strategies; when it is over every lap of
\* 1..number_of_laps has been gone through and outcomes has a row for every
\* driver.
C17_RunCompletes ==
    runs = 1 =>
        /\ pc # "raised"
        /\ lap <= number_of_laps
        /\ Done => (lap = number_of_laps /\ Len(outcomes) = Len(drivers_list))

\* C18: when the pit-stop duration cannot be calibrated from the tables, the
\* resolution of a stop that is due adds no time to the lap, leaves
\* tire_age, compound and next_pit_stop of the driver as they were, and the
\* lap loop goes on with the next driver or with the rest of the lap.
C18_FailedCalibrationIsNoStop ==
    [][(/\ pc = "pit"
        /\ ~dataframes.pitstopduration
        /\ StopDue(drivers_list[idx], lap))
       => LET d == drivers_list[idx]
              d2 == drivers_list'[idx]
          IN  /\ d2.current_lap_time = lap_time
              /\ d2.cumulative_lap_time = d.cumulative_lap_time + lap_time
              /\ d2.tire_age = d.tire_age
              /\ d2.compound = d.compound
              /\ d2.next_pit_stop = d.next_pit_stop
              /\ pc' = (IF idx < Len(drivers_list)
                        THEN "status" ELSE "positions")
              /\ lap' = lap]_vars

\* a completed race without pit data in which a driver ran past its scheduled
\* lap with its first stop still to take
C18_Witness ==
    /\ Done
    /\ ~dataframes.pitstopduration
    /\ Len(outcomes) = Len(drivers_list)
    /\ \E i \in Drivers :
          LET d == drivers_list[i]
          IN  /\ d.alive
              /\ HasStops(d.pit_stops_info)
              /\ d.next_pit_stop = 1
              /\ d.pit_stops_info.stops[1].pit_stop_lap <= number_of_laps
              /\ d.compound = d.pit_stops_info.starting_compound

\* C19: whenever races has no row for the race, or qualifyings no row for
\* it, the construction fails: there is no simulation to run, no driver and
\* no lap.
C19_NoRaceNoSimulation ==
    (~dataframes.races \/ ~dataframes.qualifyings) =>
        /\ pc \in {"config_error", "raised"}
        /\ runs = 0
        /\ drivers_list = <<>>
        /\ laps_summary = <<>>

\* the construction went through
Constructed == ~(runs = 0 /\ pc \in {"config_error", "raised"})

\* the place of driver_id id on the starting grid
GridPlace(id) == CHOOSE k \in DOMAIN starting_grid : starting_grid[k][1] = id

\* C20: of a constructed simulation, the drivers are the grid entries whose
\* id is in the drivers table, in grid order: an id absent from the table has
\* no Driver; and the outcomes of a completed run have one row per driver, in
\* the same order, so none for such an id.
C20_UnknownGridEntryDropped ==
    Constructed =>
        /\ {drivers_list[i].driver_id : i \in Drivers}
              = {starting_grid[k][1] : k \in DOMAIN starting_grid}
                \cap dataframes.drivers
        /\ \A i, j \in Drivers :
              i < j => GridPlace(drivers_list[i].driver_id)
                          < GridPlace(drivers_list[j].driver_id)
        /\ Done =>
              /\ Len(outcomes) = Len(drivers_list)
              /\ \A i \in Drivers :
                    outcomes[i].driver_id = drivers_list[i].driver_id

\* a completed race whose grid has an entry absent from the drivers table,
\* ahead of a driver that took part
C20_Witness ==
    /\ Done
    /\ \E k \in DOMAIN starting_grid, i \in Drivers :
          /\ starting_grid[k][1] \notin dataframes.drivers
          /\ k < GridPlace(drivers_list[i].driver_id)
          /\ outcomes[i].final_position = 1

\* the starters of the race without a qualifying row, known to the drivers
\* table
LateEntrants ==
    (Entered(dataframes) \ Qualified(dataframes)) \cap dataframes.drivers

\* C21: of a race of src/run.py that the races and qualifyings tables have,
\* the starting grid built from the tables lists the qualified drivers by
\* ascending qualifying position and after them every starter without a
\* qualifying row, at the positions that follow, by name; no driver is on it
\* twice, and every one of these starters has its Driver like a qualified
\* driver.
C21_LateEntrantsOnGridWithDriver ==
    (variant = "main" /\ dataframes.races /\ dataframes.qualifyings) =>
        /\ Constructed
        /\ {starting_grid[k][1] : k \in DOMAIN starting_grid}
              = Qualified(dataframes) \cup LateEntrants
        /\ \A k \in DOMAIN starting_grid : starting_grid[k][2] = k
        /\ \A j, k \in DOMAIN starting_grid :
              /\ (j # k) => starting_grid[j][1] # starting_grid[k][1]
              /\ (j < k /\ starting_grid[k][1] \in Qualified(dataframes)) =>
                    /\ starting_grid[j][1] \in Qualified(dataframes)
                    /\ starting_grid[j][1] < starting_grid[k][1]
              /\ (j < k /\ starting_grid[j][1] \in LateEntrants) =>
                    NameRank(Entrants(gp_location)[starting_grid[j][1]])
                      < NameRank(Entrants(gp_location)[starting_grid[k][1]])
        /\ \A id \in LateEntrants :
              Cardinality({i \in Drivers : drivers_list[i].driver_id = id}) = 1

\* C22: no step of a simulation changes the tables or the strategy mapping
\* its drivers hold, and the simulation built after a completed one starts
\* from the same strategies with every driver at fuel 100, cumulative time 0,
\* alive, next_pit_stop 1 and without DNF lap, and with the safety-car laps
\* of a new instance, whatever the one before has left.
C22_SimulationsIndependent ==
    [][/\ dataframes' = dataframes
       /\ pc' # "idle" =>
             /\ Len(drivers_list') = Len(drivers_list)
             /\ \A i \in Drivers :
                   drivers_list'[i].pit_stops_info
                     = drivers_list[i].pit_stops_info
       /\ (pc = "done" /\ pc' = "idle") =>
             /\ driver_strategies(drivers_list')
                   = driver_strategies(drivers_list)
             /\ \A i \in DOMAIN drivers_list' :
                   /\ drivers_list'[i].driver_id = drivers_list[i].driver_id
                   /\ drivers_list'[i].fuelc = 100 * number_of_laps
                   /\ drivers_list'[i].fuelc_err = 0
                   /\ drivers_list'[i].cumulative_lap_time = 0
                   /\ drivers_list'[i].alive
                   /\ drivers_list'[i].next_pit_stop = 1
                   /\ drivers_list'[i].earliest_dnf_lap = None
             /\ safety_car_laps'
                   = (IF test_mode THEN sc_dict(gp_location) ELSE <<>>)
      ]_vars

\* the second simulation of a Monte Carlo loop has completed, with a stop
\* taken, a retirement and a safety car
C22_Witness ==
    /\ simulations = 2
    /\ Done
    /\ safety_car_laps # <<>>
    /\ \E i, j \in Drivers :
          /\ drivers_list[i].next_pit_stop = 2
          /\ ~drivers_list[j].alive

\* C23: of the fits of several threads, any two that have ended for the same
\* key hold an equal model and an equal variability; an entry of the cache,
\* once written, is never replaced nor removed by a later writer; and a fit
\* that finds its key in the cache ends in that step with the cached values,
\* without fitting.
C23_FirstWriterWins ==
    /\ [](\A t, u \in Threads :
            (/\ fits[t].pc = "fitted" /\ fits[u].pc = "fitted"
             /\ fits[t].key = fits[u].key)
            => /\ fits[t].model.coefficients = fits[u].model.coefficients
               /\ fits[t].variability = fits[u].variability)
    /\ [][/\ \A k \in DOMAIN cache :
                k \in DOMAIN cache' /\ cache'[k] = cache[k]
          /\ \A t \in Threads :
                (/\ fits[t].pc = "lookup" /\ fits'[t] # fits[t]
                 /\ fits[t].key \in DOMAIN cache)
                => /\ fits'[t].pc = "fitted"
                   /\ fits'[t].model = cache[fits[t].key].model
                   /\ fits'[t].variability = cache[fits[t].key].variability
         ]_vars

\* C24: load_table returns the rows of the table, in the order of the
\* table, for which year is not given or lies in the years
\* year - historical_years .. year, and circuit is not given or is the row's
\* circuit; so every row without filter, and with historical_years = 0 only
\* rows of the given year.
C24_LoadTableFilters ==
    loader.called =>
        /\ loader.result
              = SelectSeq(loader.rows,
                    LAMBDA r :
                      /\ \/ loader.year = None
                         \/ /\ loader.year - loader.historical_years <= r.year
                            /\ r.year <= loader.year
                      /\ \/ loader.circuit = NoText
                         \/ r.circuit = loader.circuit)
        /\ (loader.year = None /\ loader.circuit = NoText)
              => loader.result = loader.rows
        /\ (loader.year # None /\ loader.historical_years = 0)
              => \A k \in DOMAIN loader.result :
                    loader.result[k].year = loader.year

\* a call with both filters on a table of two rows: the row of the first
\* year of the window is returned, the other row is not
C24_Witness ==
    /\ loader.called
    /\ loader.year # None /\ loader.circuit # NoText
    /\ loader.historical_years > 0
    /\ Len(loader.result) = 1
    /\ Len(loader.rows) = 2
    /\ loader.result[1].year = loader.year - loader.historical_years

\* C25: the step that ends the lap of a running driver adds to its
\* cumulative time the lap time, which is best qualifying time + prediction
\* from the fuel, compound and tire age of that moment + noise, times 1.2 on
\* a safety-car lap and as it is otherwise, plus the duration of the stop of
\* that lap, which is added after the scaling and is 0 without stop.
C25_PitDurationNotScaled ==
    [][pc = "pit" =>
        LET d == drivers_list[idx]
            d2 == drivers_list'[idx]
            added == d2.cumulative_lap_time - d.cumulative_lap_time
        IN  \E var \in {0 - d.variability, 0, d.variability},
               pit \in PitDurations \cup {0} :
              LET lt == d.best_qualif_time
                          + Predict(d.fuelc, d.compound, d.tire_age) + var
              IN  /\ lap_time = (IF lap \in Range(safety_car_laps)
                                 THEN (lt * 6) \div 5 ELSE lt)
                  /\ added = lap_time + pit
                  /\ d2.current_lap_time = added
                  /\ (pit # 0) <=> (d2.next_pit_stop # d.next_pit_stop)
      ]_vars

\* every driver has done a lap under the safety car, and one of them has
\* stopped on it
C25_Witness ==
    /\ pc = "positions"
    /\ lap \in Range(safety_car_laps)
    /\ \E i \in Drivers :
          /\ drivers_list[i].alive
          /\ drivers_list[i].next_pit_stop = 2
          /\ drivers_list[i].current_lap_time
                >= SafetyCarLapTime(drivers_list[i].best_qualif_time)
                     + 80 * t_per_grid_pos

\* the drivers still running
Running == {i \in Drivers : drivers_list[i].alive}

\* C26: when the position step of a lap is done, the positions of the running
\* drivers are 1..R, each once, R being their number, by ascending
\* cumulative time and, at equal times, by their order in the driver list;
\* a retired driver has no position, and gets none before the final
\* classification.
C26_RunningPositionsByTime ==
    /\ [](pc = "record" =>
            /\ {drivers_list[i].position : i \in Running}
                  = 1..Cardinality(Running)
            /\ \A i, j \in Running :
                  (\/ drivers_list[i].cumulative_lap_time
                        < drivers_list[j].cumulative_lap_time
                   \/ /\ drivers_list[i].cumulative_lap_time
                           = drivers_list[j].cumulative_lap_time
                      /\ i < j)
                  => drivers_list[i].position < drivers_list[j].position
            /\ \A i \in Drivers \ Running :
                  drivers_list[i].position = None)
    /\ [][(SameSimulation /\ pc # "classify") =>
            \A i \in Drivers :
                (~drivers_list[i].alive /\ drivers_list[i].position = None)
                => drivers_list'[i].position = None]_vars

\* positions given at a lap where two running drivers have the same
\* cumulative time and a third driver has retired
C26_Witness ==
    /\ pc = "record"
    /\ \E i, j \in Running :
          /\ i < j
          /\ drivers_list[i].cumulative_lap_time
                = drivers_list[j].cumulative_lap_time
          /\ drivers_list[i].position + 1 = drivers_list[j].position
    /\ \E k \in Drivers : ~drivers_list[k].alive

\* the DNF lap of the draws: whether the accident and the failure fired,
\* and the lap drawn for each
EarliestOf(acc, fl, a, f) ==
    CASE acc /\ fl -> Min(a, f)
      [] acc /\ ~fl -> a
      [] ~acc /\ fl -> f
      [] OTHER -> None

\* C27: in probabilistic mode, whatever the draws of the retirement
\* initialization of a driver, its earliest_dnf_lap is none when neither
\* occurrence fired and the smaller of the laps of those that fired
\* otherwise; the initialization leaves such a value; and once the
\* initialization is over every DNF lap set is a lap of 1..number_of_laps.
C27_EarliestDnfLapOfDraws ==
    /\ []((pc = "retire" /\ ~test_mode) =>
            \A acc \in BOOLEAN, fl \in BOOLEAN,
               a \in 1..number_of_laps, f \in 1..number_of_laps :
              DnfDraw(drivers_list[idx], acc, fl, a, f).earliest_dnf_lap
                = EarliestOf(acc, fl, a, f))
    /\ []((Initialized /\ ~test_mode) =>
            \A i \in Drivers :
              DnfLap(i) = None \/ DnfLap(i) \in 1..number_of_laps)
    /\ [][(pc = "retire" /\ ~test_mode) =>
            \E acc \in BOOLEAN, fl \in BOOLEAN,
               a \in 1..number_of_laps, f \in 1..number_of_laps :
              /\ drivers_list'[idx].earliest_dnf_lap
                    = EarliestOf(acc, fl, a, f)
              /\ variant = "New" =>
                    /\ drivers_list'[idx].accident_dnf_lap
                          = (IF acc THEN a ELSE None)
                    /\ drivers_list'[idx].failure_dnf_lap
                          = (IF fl THEN f ELSE None)]_vars

\* after the initialization, a driver for which both occurrences fired at
\* different laps, and a driver for which none fired
C27_Witness ==
    /\ Initialized /\ ~test_mode
    /\ \E i, j \in Drivers :
          /\ drivers_list[i].accident_dnf_lap # None
          /\ drivers_list[i].failure_dnf_lap # None
          /\ drivers_list[i].failure_dnf_lap
                < drivers_list[i].accident_dnf_lap
          /\ DnfLap(i) = drivers_list[i].failure_dnf_lap
          /\ DnfLap(j) = None

\* the sum of the lap times of the records rows[1..k] of driver id
RECURSIVE SumLapTimes(_, _, _)
SumLapTimes(rows, id, k) ==
    IF k = 0 THEN 0
    ELSE SumLapTimes(rows, id, k - 1)
         + (IF rows[k].driver_id = id THEN rows[k].lap_time ELSE 0)

\* 0.25 s for every place of the driver on the starting grid, in src/run.py
GridOffset(id) ==
    IF variant = "main" THEN starting_grid[GridPlace(id)][2] * t_per_grid_pos
    ELSE 0

\* the cumulative time of every driver is its grid offset plus its lap
\* times: those recorded and, at the end of a lap not yet recorded, that
\* of the lap; and of two records of a driver that follow each other the
\* later one adds its lap time to the cumulative time of the earlier one
CumulativeTimeIsGridPlusLaps ==
    /\ pc \in {"record", "classify", "outcomes", "done"} =>
          \A i \in Drivers :
            drivers_list[i].cumulative_lap_time
              = GridOffset(drivers_list[i].driver_id)
                + SumLapTimes(laps_summary, drivers_list[i].driver_id,
                              Len(laps_summary))
                + (IF pc = "record" THEN drivers_list[i].current_lap_time
                   ELSE 0)
    /\ \A k, m \in DOMAIN laps_summary :
          (/\ k < m
           /\ laps_summary[k].driver_id = laps_summary[m].driver_id
           /\ \A j \in (k + 1)..(m - 1) :
                 laps_summary[j].driver_id # laps_summary[m].driver_id)
          => laps_summary[m].cumulative_lap_time
               = laps_summary[k].cumulative_lap_time
                 + laps_summary[m].lap_time

\* C28 as stated: during a run, the first or a later one, the cumulative time
\* of a driver at the end of every lap is 0.25 s times its place on the grid
\* plus its lap times so far, and consecutive records of a driver differ in
\* cumulative time by the lap time of the later one.
C28_CumulativeTimeAnyRun == runs >= 1 => CumulativeTimeIsGridPlusLaps

\* C28 as amended: so it is during the first run() of an instance.
C28_CumulativeTimeFirstRun == runs = 1 => CumulativeTimeIsGridPlusLaps

\* the end of the second lap of a first run() of src/run.py with a running
\* driver that started from the second place or further back
C28_Witness ==
    /\ variant = "main" /\ runs = 1
    /\ pc = "record" /\ lap >= 2
    /\ \E i \in Drivers :
          /\ drivers_list[i].alive
          /\ GridOffset(drivers_list[i].driver_id) >= 2 * t_per_grid_pos
          /\ RowsOf(drivers_list[i].driver_id) # {}

\* the lap times a driver d can set on tires of compound c and age a
LapTimesOn(d, l, c, a) ==
    { LET lt == d.best_qualif_time + Predict(d.fuelc, c, a) + var
      IN  IF l \in Range(safety_car_laps) THEN SafetyCarLapTime(lt) ELSE lt :
      var \in Noise(d) }

\* the lap of the first run() on which entry k of a strategy is taken by a
\* driver that keeps running: the first lap after the stop before it on
\* which Run._pit_stop finds the entry due
RECURSIVE TakenLap(_, _)
TakenLap(stops, k) ==
    LET from == IF k = 1 THEN 1 ELSE TakenLap(stops, k - 1) + 1
        laps == {l \in from..number_of_laps : StopTaken(stops[k], l)}
    IN  IF laps = {} THEN Infinity
        ELSE CHOOSE l \in laps : \A m \in laps : l <= m

\* the driver whose lap is being computed took entry next_pit_stop - 1 on
\* the lap before this one
StoppedLastLap ==
    /\ pc = "pit" /\ runs = 1
    /\ LET d == drivers_list[idx]
       IN  /\ d.next_pit_stop > 1
           /\ TakenLap(d.pit_stops_info.stops, d.next_pit_stop - 1) = lap - 1

\* C29: on a lap where a stop is taken the lap time is the one of the
\* compound and of the tire_age the driver had before the stop, that lap
\* counted in the tire_age, and the stop adds its duration to it; on the lap
\* after the stop the lap time is the one of the new compound at the age
\* tire_age_after_stop + 1.
C29_NewTiresFromFollowingLap ==
    /\ [][(pc = "pit" /\ drivers_list'[idx].next_pit_stop
                            # drivers_list[idx].next_pit_stop) =>
            LET d == drivers_list[idx]
                d2 == drivers_list'[idx]
                data == d.pit_stops_info.stops[d.next_pit_stop]
            IN  /\ lap_time \in LapTimesOn(d, lap, d.compound, d.tire_age)
                /\ d2.current_lap_time - lap_time \in PitDurations
                /\ d2.compound = data.compound
                /\ d2.tire_age = data.tire_age]_vars
    /\ [][(pc = "info" /\ pc' = "laptime") =>
            drivers_list'[idx].tire_age = drivers_list[idx].tire_age + 1]_vars
    /\ [](StoppedLastLap =>
            LET d == drivers_list[idx]
                data == d.pit_stops_info.stops[d.next_pit_stop - 1]
            IN  /\ d.compound = data.compound
                /\ d.tire_age = data.tire_age + 1
                /\ lap_time \in LapTimesOn(d, lap, data.compound,
                                            data.tire_age + 1))

\* the lap time of the lap after a stop that changed the compound, computed
\* and about to be added
C29_Witness ==
    /\ StoppedLastLap
    /\ LET d == drivers_list[idx]
       IN  /\ d.compound # d.pit_stops_info.starting_compound
           /\ d.compound = d.pit_stops_info.stops[d.next_pit_stop - 1].compound
           /\ lap_time \in LapTimesOn(d, lap, d.compound, d.tire_age)

\* the strategies C30 is about: one entry or more, pit laps strictly
\* increasing, each in its own window and in the race, durations available
WellFormedStrategy(d) ==
    LET stops == d.pit_stops_info.stops
    IN  /\ stops # <<>>
        /\ dataframes.pitstopduration
        /\ \A k \in DOMAIN stops :
              /\ stops[k].pit_stop_lap \in 1..number_of_laps
              /\ stops[k].pitstop_interval[1] <= stops[k].pit_stop_lap
              /\ stops[k].pit_stop_lap <= stops[k].pitstop_interval[2]
              /\ k < Len(stops)
                    => stops[k].pit_stop_lap < stops[k + 1].pit_stop_lap

\* the first loop of lap l is over for driver i
LapComputed(i, l) ==
    /\ pc \notin {"idle", "retire", "grid", "config_error"}
    /\ \/ lap > l
       \/ /\ lap = l
          /\ \/ idx > i
             \/ pc \in {"positions", "record", "classify", "outcomes",
                         "done"}

\* driver d runs, or retired on a lap after lap l
RunsBeyond(d, l) == d.alive \/ (runs = 1 /\ d.earliest_dnf_lap > l)

\* C30: of a strategy with strictly increasing pit laps, each in its window
\* and in the race, and with pit durations available, every entry whose pit
\* lap the driver has run is taken, next_pit_stop beyond it; an entry is
\* taken in the pit-stop resolution of its driver as entry next_pit_stop, on
\* a lap not later than its pit lap, one entry on a lap, next_pit_stop
\* growing by 1 and to the number of entries plus 1 at most.
C30_EveryEntryTakenOnceInOrder ==
    /\ [](\A i \in Drivers :
            LET d == drivers_list[i]
                stops == d.pit_stops_info.stops
            IN  WellFormedStrategy(d) =>
                  /\ d.next_pit_stop \in 1..(Len(stops) + 1)
                  /\ \A k \in DOMAIN stops :
                        (/\ LapComputed(i, stops[k].pit_stop_lap)
                         /\ RunsBeyond(d, stops[k].pit_stop_lap))
                        => d.next_pit_stop > k)
    /\ [][SameSimulation =>
            \A i \in Drivers :
              LET d == drivers_list[i]
                  d2 == drivers_list'[i]
                  stops == d.pit_stops_info.stops
              IN  (WellFormedStrategy(d)
                     /\ d2.next_pit_stop # d.next_pit_stop)
                  => /\ d2.next_pit_stop = d.next_pit_stop + 1
                     /\ d.next_pit_stop \in DOMAIN stops
                     /\ pc = "pit" /\ idx = i /\ pc' # "pit"
                     /\ lap <= stops[d.next_pit_stop].pit_stop_lap
                     /\ lap = TakenLap(stops, d.next_pit_stop)
                     /\ d2.compound = stops[d.next_pit_stop].compound
                     /\ d2.tire_age = stops[d.next_pit_stop].tire_age]_vars

\* a race run to its end by a driver that took the two stops of its
\* strategy, and a race in which a driver retired after its only stop
C30_Witness ==
    /\ Done
    /\ \E i \in Drivers :
          LET d == drivers_list[i]
          IN  /\ WellFormedStrategy(d)
              /\ \/ /\ Len(d.pit_stops_info.stops) = 2
                    /\ d.alive
                    /\ d.next_pit_stop = 3
                 \/ /\ ~d.alive
                    /\ d.earliest_dnf_lap
                          > d.pit_stops_info.stops[1].pit_stop_lap
                    /\ d.next_pit_stop = 2

====
